---------------------------- MODULE Spec2Model ----------------------------
(***************************************************************************)
(* A model of NONScript (src/main.py): the tokenizer, the recursive-descent *)
(* expression evaluator, the function registry with its definition parser,  *)
(* the definition-file loader and the function engine.                      *)
(*                                                                          *)
(* Text is modelled as it is in the program: a line is a sequence of        *)
(* one-character strings, a token is a sequence of characters, and every    *)
(* string operation of the source (strip, split, "in", float) is modelled   *)
(* on those sequences.  Positions are 0-based as in the source; s[i] of the *)
(* source is s[i + 1] here.                                                 *)
(*                                                                          *)
(* A number is a record [k, n]: k = "num" is the exact integer n; k =       *)
(* "real" is a floating-point value that is not an exactly known integer    *)
(* (n = 1 for pi, n = 2 for e, n = 0 for any computed one).                 *)
(***************************************************************************)
EXTENDS Integers, Sequences, FiniteSets, TLC

VARIABLES
    env,        \* vars: the variable store (name -> number)
    functions,  \* functions: the registry of user-defined functions
    running,    \* TRUE until an exception leaves main_loop
    last,       \* observation of the last request: what ran and how it ended
    lastDef,    \* history: per name, the definition block registered last
    ts,         \* tokenize: the line s being scanned
    ti,         \* tokenize: the scan position i
    ttoks,      \* tokenize: the tokens list
    tpc,        \* tokenize: "loop" inside the while loop, "done" after return
    etree,      \* evaluator runs: the reference reading of the text
    etext,      \* evaluator runs: the text handed to tokenize/eval_expr
    ebroken,    \* evaluator runs: TRUE once a ")" of the text was replaced
    eres,       \* evaluator runs: the outcome of eval_expr(tokenize(etext))
    lfile,      \* loader: the lines of the file
    lpos,       \* loader: index of the next line of the for loop
    lbuf,       \* loader: buf
    lst,        \* loader: "reading", "eof" or "raised"
    lreg,       \* loader history: number of definitions registered
    lend        \* loader history: number of 'end' lines read

vars == <<env, functions, running, last, lastDef, ts, ti, ttoks, tpc,
          etree, etext, ebroken, eres, lfile, lpos, lbuf, lst, lreg, lend>>

replVars == <<env, functions, running, last, lastDef>>
tokVars  == <<ts, ti, ttoks, tpc>>
exprVars == <<etree, etext, ebroken, eres>>
loadVars == <<lfile, lpos, lbuf, lst, lreg, lend>>

(***************************************************************************)
(* Bounds of the model.                                                     *)
(***************************************************************************)
MaxLineLen == 3     \* longest line scanned by the tokenizer runs
MaxToks    == 4     \* tokens the tokenizer runs may accumulate
MaxOps     == 3     \* operators, parenthesis pairs and calls of an expression
MaxDepth   == 3     \* nesting depth of user-function calls (recursion limit)
MaxFileLen == 4     \* lines of a definition file
ExactLimit == 32768 \* integers beyond it are no longer tracked exactly

(***************************************************************************)
(* Characters and character classes.                                        *)
(***************************************************************************)
Punct == {"(", ")", "+", "-", "*", "/", "^", ",", "[", "]"}

WhiteSpace == {" "}

Digit == {"0", "1", "2", "3", "4", "5", "6", "7", "8", "9"}

Letter == {"a", "b", "c", "d", "e", "f", "g", "h", "i", "j", "k", "l", "m",
           "n", "o", "p", "q", "r", "s", "t", "u", "v", "w", "x", "y", "z"}

IsAlnum(c) == c \in Digit \cup Letter

IsSpace(c) == c \in WhiteSpace

\* Python's s[i:j] for 0 <= i, j (an empty string when j <= i).
Slice(s, i, j) == SubSeq(s, i + 1, IF j > Len(s) THEN Len(s) ELSE j)

(***************************************************************************)
(* tokenize (src/main.py 107-123).                                          *)
(***************************************************************************)
RECURSIVE WordEnd(_, _)
\* The inner while loop: the first j >= i at which s[j] is not part of a word.
WordEnd(s, j) ==
    IF j < Len(s) /\ (IsAlnum(s[j + 1]) \/ s[j + 1] = ".")
    THEN WordEnd(s, j + 1)
    ELSE j

\* One iteration of the outer while loop at position i < len(s).
TokIter(s, i, toks) ==
    LET c == s[i + 1] IN
    IF c \in Punct THEN [i |-> i + 1, tokens |-> Append(toks, <<c>>)]
    ELSE IF IsSpace(c) THEN [i |-> i + 1, tokens |-> toks]
    ELSE LET j == WordEnd(s, i)
         IN [i |-> j, tokens |-> Append(toks, Slice(s, i, j))]

RECURSIVE TokLoop(_, _, _)
\* The outer while loop run to its end.  An iteration that leaves i where it
\* was repeats forever (the same character is read again, tokens grows until
\* memory is exhausted): that outcome is ok = FALSE.
TokLoop(s, i, toks) ==
    IF i >= Len(s) THEN [ok |-> TRUE, tokens |-> toks]
    ELSE LET n == TokIter(s, i, toks)
         IN IF n.i = i THEN [ok |-> FALSE, tokens |-> toks]
            ELSE TokLoop(s, n.i, n.tokens)

tokenize(s) == TokLoop(s, 0, <<>>)

(***************************************************************************)
(* String operations of the source, on sequences of characters.             *)
(***************************************************************************)
HasChar(s, c) == \E k \in 1..Len(s) : s[k] = c

\* 1-based index of the first c in s, 0 when there is none (str.find + 1).
FirstIndex(s, c) ==
    IF HasChar(s, c) THEN CHOOSE k \in 1..Len(s) :
                              s[k] = c /\ \A m \in 1..(k - 1) : s[m] # c
    ELSE 0

\* 1-based index of the first occurrence of sub in s, 0 when there is none.
FindSub(s, sub) ==
    LET hits == {k \in 1..(Len(s) - Len(sub) + 1) :
                    SubSeq(s, k, k + Len(sub) - 1) = sub}
    IN IF hits = {} THEN 0 ELSE CHOOSE k \in hits : \A m \in hits : k <= m

\* Python's "sub in s".
HasSub(s, sub) == FindSub(s, sub) # 0

RECURSIVE LStrip(_)
LStrip(s) == IF s # <<>> /\ IsSpace(Head(s)) THEN LStrip(Tail(s)) ELSE s

RECURSIVE RStrip(_)
RStrip(s) ==
    IF s # <<>> /\ IsSpace(s[Len(s)]) THEN RStrip(SubSeq(s, 1, Len(s) - 1))
    ELSE s

\* str.strip()
Strip(s) == RStrip(LStrip(s))

RECURSIVE RStripChar(_, _)
\* str.rstrip(c) for a single character c
RStripChar(s, c) ==
    IF s # <<>> /\ s[Len(s)] = c THEN RStripChar(SubSeq(s, 1, Len(s) - 1), c)
    ELSE s

\* s.split(c, 1) when c occurs in s: the parts before and after the first c.
Before(s, k) == SubSeq(s, 1, k - 1)
After(s, k, w) == SubSeq(s, k + w, Len(s))

RECURSIVE Split(_, _)
\* s.split(c): always at least one part.
Split(s, c) ==
    LET k == FirstIndex(s, c)
    IN IF k = 0 THEN <<s>> ELSE <<Before(s, k)>> \o Split(After(s, k, 1), c)

RECURSIVE StripNonEmpty(_)
\* [p.strip() for p in parts if p.strip()]
StripNonEmpty(parts) ==
    IF parts = <<>> THEN <<>>
    ELSE LET p == Strip(Head(parts))
         IN (IF p = <<>> THEN <<>> ELSE <<p>>) \o StripNonEmpty(Tail(parts))

\* Python's s[1:-1]
Inner(s) == SubSeq(s, 2, Len(s) - 1)

(***************************************************************************)
(* Numbers.                                                                 *)
(***************************************************************************)
Num(n) == [k |-> "num", n |-> n]

Real(id) == [k |-> "real", n |-> id]

IsNum(v) == v.k = "num"

Abs(n) == IF n < 0 THEN -n ELSE n

\* An integer result, tracked exactly only inside the exact window.
Norm(n) == IF Abs(n) > ExactLimit THEN Real(0) ELSE Num(n)

Add(a, b) == IF IsNum(a) /\ IsNum(b) THEN Norm(a.n + b.n) ELSE Real(0)

Sub(a, b) == IF IsNum(a) /\ IsNum(b) THEN Norm(a.n - b.n) ELSE Real(0)

Mul(a, b) == IF IsNum(a) /\ IsNum(b) THEN Norm(a.n * b.n) ELSE Real(0)

\* v / rhs for rhs # 0: exact when rhs divides v.
Div(a, b) ==
    IF IsNum(a) /\ IsNum(b) /\ Abs(a.n) % Abs(b.n) = 0
    THEN LET q == Abs(a.n) \div Abs(b.n)
         IN Num(IF (a.n < 0) = (b.n < 0) THEN q ELSE -q)
    ELSE Real(0)

RECURSIVE PowLoop(_, _, _)
\* acc * b^e for |b| >= 2, e >= 0, leaving the exact window at once.
PowLoop(b, e, acc) ==
    IF e = 0 THEN Num(acc)
    ELSE IF Abs(acc * b) > ExactLimit THEN Real(0)
    ELSE PowLoop(b, e - 1, acc * b)

\* v ** w of Python floats; ok = FALSE is ZeroDivisionError (0.0 ** negative).
Pow(a, b) ==
    IF b = Num(0) \/ a = Num(1) THEN [ok |-> TRUE, v |-> Num(1)]
    ELSE IF ~(IsNum(a) /\ IsNum(b)) THEN [ok |-> TRUE, v |-> Real(0)]
    ELSE IF a.n = 0 THEN [ok |-> b.n > 0, v |-> Num(0)]
    ELSE IF a.n = -1 THEN [ok |-> TRUE, v |-> Num(IF b.n % 2 = 0 THEN 1 ELSE -1)]
    ELSE IF b.n < 0 THEN [ok |-> TRUE, v |-> Real(0)]
    ELSE [ok |-> TRUE, v |-> PowLoop(a.n, b.n, 1)]

DigitSeq == <<"0", "1", "2", "3", "4", "5", "6", "7", "8", "9">>

DigitVal(c) == (CHOOSE k \in 1..10 : DigitSeq[k] = c) - 1

AllDigits(s) == \A k \in 1..Len(s) : s[k] \in Digit

RECURSIVE ToNat(_, _)
\* The value of a digit string, stopping one past the exact window.
ToNat(ds, acc) ==
    IF ds = <<>> \/ acc > ExactLimit THEN acc
    ELSE ToNat(Tail(ds), acc * 10 + DigitVal(Head(ds)))

\* digits [ "." digits ] with at least one digit: the decimal notation.
IsDecimal(s) ==
    LET k == FirstIndex(s, ".")
        ip == IF k = 0 THEN s ELSE Before(s, k)
        fp == IF k = 0 THEN <<>> ELSE After(s, k, 1)
    IN AllDigits(ip) /\ AllDigits(fp) /\ Len(ip) + Len(fp) > 0

DecimalVal(s) ==
    LET k == FirstIndex(s, ".")
        ip == IF k = 0 THEN s ELSE Before(s, k)
        fp == IF k = 0 THEN <<>> ELSE After(s, k, 1)
    IN IF \A m \in 1..Len(fp) : fp[m] = "0" THEN Norm(ToNat(ip, 0)) ELSE Real(0)

\* mantissa "e" [sign] digits: the exponent notation (its value is not tracked).
IsExponent(s) ==
    LET k == FirstIndex(s, "e")
        ex == After(s, k, 1)
        ed == IF ex # <<>> /\ Head(ex) \in {"+", "-"} THEN Tail(ex) ELSE ex
    IN k > 1 /\ IsDecimal(Before(s, k)) /\ ed # <<>> /\ AllDigits(ed)

SpecialFloats == {<<"i", "n", "f">>, <<"n", "a", "n">>,
                  <<"i", "n", "f", "i", "n", "i", "t", "y">>}

\* float(text): surrounding whitespace and one sign are accepted.
ParseFloat(text) ==
    LET s == Strip(text)
        neg == s # <<>> /\ Head(s) = "-"
        u == IF s # <<>> /\ Head(s) \in {"+", "-"} THEN Tail(s) ELSE s
    IN IF IsDecimal(u)
       THEN LET v == DecimalVal(u)
            IN [ok |-> TRUE, v |-> IF neg /\ IsNum(v) THEN Num(-v.n) ELSE v]
       ELSE IF u \in SpecialFloats \/ IsExponent(u)
       THEN [ok |-> TRUE, v |-> Real(0)]
       ELSE [ok |-> FALSE, v |-> Num(0)]

(***************************************************************************)
(* Global state (src/main.py 7-24).                                         *)
(***************************************************************************)
EmptyEnv == [x \in {} |-> Num(0)]

\* vars[k] = v
Put(e, k, v) == [x \in DOMAIN e \cup {k} |-> IF x = k THEN v ELSE e[x]]

\* vars after lines 11-12: pi and e.
InitialEnv == Put(Put(EmptyEnv, <<"p", "i">>, Real(1)), <<"e">>, Real(2))

\* The built-in gateway is an external library; one representative built-in
\* of it, abs (numpy's, one argument), stands for the name table.
BuiltinNames == {<<"a", "b", "s">>}

\* builtin_functions[name](*args): ok = FALSE when the native call raises.
CallBuiltin(name, args) ==
    IF Len(args) # 1 THEN [ok |-> FALSE, v |-> Num(0)]
    ELSE [ok |-> TRUE,
          v |-> IF IsNum(args[1]) THEN Num(Abs(args[1].n)) ELSE args[1]]

(***************************************************************************)
(* Outcomes of the evaluator and of the function engine.  st = "ok" is a    *)
(* normal return, st = "err" a raised exception named by err; toks is the   *)
(* token list as the step leaves it; vals is an argument or result list;    *)
(* g is the global state as the step leaves it: g.vars is the variable      *)
(* store and g.log the history of the user-function invocations made so     *)
(* far in the request.                                                      *)
(***************************************************************************)
Ok(v, vals, toks, g) ==
    [st |-> "ok", err |-> "", v |-> v, vals |-> vals, toks |-> toks, g |-> g]

Raise(err, toks, g) ==
    [st |-> "err", err |-> err, v |-> Num(0), vals |-> <<>>, toks |-> toks,
     g |-> g]

Global(store, log) == [vars |-> store, log |-> log]

\* A history entry.  ev = "call": one invocation of run_function_call on a
\* registered name, with the store when it was entered (pre) and when it was
\* left (post), the number of arguments passed, how it ended, and the body
\* lines it executed (ran).
\* ev = "factor": one call expression of parse_factor that ended in a failure
\* of its own, with the store when parse_factor was entered and when it raised.
Event(ev, name, nargs, pre, post, st, err, ran) ==
    [ev |-> ev, name |-> name, nargs |-> nargs, pre |-> pre, post |-> post,
     st |-> st, err |-> err, ran |-> ran]

Logged(g, event) == [vars |-> g.vars, log |-> Append(g.log, event)]

LP == <<"(">>
RP == <<")">>

(***************************************************************************)
(* The expression parser (src/main.py 29-103) and the function engine       *)
(* (src/main.py 171-205).  fns is the registry (never written while an      *)
(* expression is evaluated), g the global state and d the number of         *)
(* user-function invocations that are active.                               *)
(***************************************************************************)
RECURSIVE parse_factor(_, _, _, _)
RECURSIVE ExponentLoop(_, _, _, _, _)
RECURSIVE TermLoop(_, _, _, _, _)
RECURSIVE ExprLoop(_, _, _, _, _)
RECURSIVE eval_expr(_, _, _, _)
RECURSIVE ArgLoop(_, _, _, _, _)
RECURSIVE RunBody(_, _, _, _, _, _)
RECURSIVE run_function_call(_, _, _, _, _)

\* Line 81: v = v ** <factor f>, then the loop again.
ExponentStep(v, f, fns, d) ==
    IF f.st = "err" THEN f
    ELSE IF ~Pow(v, f.v).ok THEN Raise("ZeroDivisionError", f.toks, f.g)
    ELSE ExponentLoop(Pow(v, f.v).v, f.toks, f.g, fns, d)

\* Lines 79-81: the while loop of parse_exponent.
ExponentLoop(v, toks, g, fns, d) ==
    IF toks # <<>> /\ Head(toks) = <<"^">>
    THEN ExponentStep(v, parse_factor(Tail(toks), g, fns, d), fns, d)
    ELSE Ok(v, <<>>, toks, g)

\* Line 78, then the loop, for the first factor f.
ExponentFrom(f, fns, d) ==
    IF f.st = "err" THEN f ELSE ExponentLoop(f.v, f.toks, f.g, fns, d)

\* Lines 77-82.
parse_exponent(toks, g, fns, d) ==
    ExponentFrom(parse_factor(toks, g, fns, d), fns, d)

\* Lines 88-94: v *= rhs or v /= rhs for the operand x, then the loop again.
TermStep(v, op, x, fns, d) ==
    IF x.st = "err" THEN x
    ELSE IF op = <<"*">> THEN TermLoop(Mul(v, x.v), x.toks, x.g, fns, d)
    ELSE IF x.v = Num(0) THEN Raise("Division by zero", x.toks, x.g)
    ELSE TermLoop(Div(v, x.v), x.toks, x.g, fns, d)

\* Lines 86-94: the while loop of parse_term.
TermLoop(v, toks, g, fns, d) ==
    IF toks # <<>> /\ Head(toks) \in {<<"*">>, <<"/">>}
    THEN TermStep(v, Head(toks), parse_exponent(Tail(toks), g, fns, d), fns, d)
    ELSE Ok(v, <<>>, toks, g)

\* Line 85, then the loop, for the first operand x.
TermFrom(x, fns, d) ==
    IF x.st = "err" THEN x ELSE TermLoop(x.v, x.toks, x.g, fns, d)

\* Lines 84-95.
parse_term(toks, g, fns, d) ==
    TermFrom(parse_exponent(toks, g, fns, d), fns, d)

\* Lines 101-102: v = v + rhs or v - rhs for the operand x, then the loop again.
ExprStep(v, op, x, fns, d) ==
    IF x.st = "err" THEN x
    ELSE ExprLoop(IF op = <<"+">> THEN Add(v, x.v) ELSE Sub(v, x.v),
                  x.toks, x.g, fns, d)

\* Lines 99-102: the while loop of eval_expr.
ExprLoop(v, toks, g, fns, d) ==
    IF toks # <<>> /\ Head(toks) \in {<<"+">>, <<"-">>}
    THEN ExprStep(v, Head(toks), parse_term(Tail(toks), g, fns, d), fns, d)
    ELSE Ok(v, <<>>, toks, g)

\* Line 98, then the loop, for the first operand x.
ExprFrom(x, fns, d) ==
    IF x.st = "err" THEN x ELSE ExprLoop(x.v, x.toks, x.g, fns, d)

\* Lines 97-103.
eval_expr(toks, g, fns, d) ==
    ExprFrom(parse_term(toks, g, fns, d), fns, d)

\* Line 37 or 40: args.append(<expression x>), then the loop of lines 38-40.
ArgStep(args, x, fns, d) ==
    IF x.st = "err" THEN x
    ELSE ArgLoop(Append(args, x.v), x.toks, x.g, fns, d)

\* Lines 38-40: the while loop over the further arguments of a call.
ArgLoop(args, toks, g, fns, d) ==
    IF toks # <<>> /\ Head(toks) = <<",">>
    THEN ArgStep(args, eval_expr(Tail(toks), g, fns, d), fns, d)
    ELSE Ok(Num(0), args, toks, g)

\* Lines 35-40: the argument list of a call, after its "(" was consumed.
ParseArgs(toks, g, fns, d) ==
    IF toks # <<>> /\ Head(toks) # RP
    THEN ArgStep(<<>>, eval_expr(toks, g, fns, d), fns, d)
    ELSE Ok(Num(0), <<>>, toks, g)

\* Lines 54-55: the value of a call of a user function, from the outcome r
\* of run_function_call.
UserCallValue(r, rest) ==
    IF r.st = "err" THEN r
    ELSE Ok(IF r.vals # <<>> THEN r.vals[1] ELSE Num(0), <<>>, rest, r.g)

\* Lines 46-50: the call of a built-in.
BuiltinCallValue(token, a, rest) ==
    IF CallBuiltin(token, a.vals).ok
    THEN Ok(CallBuiltin(token, a.vals).v, <<>>, rest, a.g)
    ELSE Raise("Error in builtin function", rest, a.g)

\* UnknownCall giving the value 0 instead of raising.
UnknownCallIgnored(token, pre, a) == Ok(Num(0), <<>>, Tail(a.toks), a.g)

\* Lines 57-58: the name of the call is neither a built-in nor registered.
UnknownCall(token, pre, a) ==
    Raise("Unknown function", Tail(a.toks),
          Logged(a.g, Event("factor", token, Len(a.vals), pre, a.g.vars,
                            "err", "Unknown function", <<>>)))

\* Lines 41-58: the close of the argument list a and the dispatch of the
\* call; pre is the store when parse_factor was entered.
FinishCall(token, pre, a, fns, d) ==
    IF a.st = "err" THEN a
    ELSE IF a.toks = <<>> THEN Raise("Unclosed parenthesis", a.toks, a.g)
    ELSE IF token \in BuiltinNames THEN BuiltinCallValue(token, a, Tail(a.toks))
    ELSE IF token \in DOMAIN fns
    THEN UserCallValue(run_function_call(token, a.vals, a.g, fns, d),
                       Tail(a.toks))
    ELSE UnknownCall(token, pre, a)

\* Lines 61-65: the close of a parenthesized expression x.
CloseParen(x) ==
    IF x.st = "err" THEN x
    ELSE IF x.toks = <<>> \/ Head(x.toks) # RP
    THEN Raise("Expected closing parenthesis", x.toks, x.g)
    ELSE Ok(x.v, <<>>, Tail(x.toks), x.g)

\* Lines 67-75: a variable or a number literal.
Atom(token, rest, g) ==
    IF token \in DOMAIN g.vars THEN Ok(g.vars[token], <<>>, rest, g)
    ELSE IF ParseFloat(token).ok THEN Ok(ParseFloat(token).v, <<>>, rest, g)
    ELSE Raise("Unrecognized token or variable", rest, g)

\* Lines 29-75.
parse_factor(toks, g, fns, d) ==
    IF toks = <<>> THEN Raise("IndexError", toks, g)
    ELSE IF Tail(toks) # <<>> /\ Head(Tail(toks)) = LP
    THEN FinishCall(Head(toks), g.vars,
                    ParseArgs(Tail(Tail(toks)), g, fns, d), fns, d)
    ELSE IF Head(toks) = LP THEN CloseParen(eval_expr(Tail(toks), g, fns, d))
    ELSE Atom(Head(toks), Tail(toks), g)

\* Lines 190-191: the parameters bound, in order, into the cleared store.
RECURSIVE Bind(_, _, _)
Bind(names, vals, e) ==
    IF names = <<>> \/ vals = <<>> THEN e
    ELSE Bind(Tail(names), Tail(vals), Put(e, Head(names), Head(vals)))

\* Line 187: saved = vars.copy()
Snapshot(store) == store

\* Restore without the clear: vars.update(saved) alone.
RestoreNoClear(current, saved) ==
    [x \in DOMAIN current \cup DOMAIN saved |->
        IF x \in DOMAIN saved THEN saved[x] ELSE current[x]]

\* Lines 202-203: vars.clear(); vars.update(saved)
Restore(current, saved) == saved

\* Line 200: vars.get(o, 0.0) for each declared output.
Outputs(store, outs) ==
    [k \in 1..Len(outs) |->
        IF outs[k] \in DOMAIN store THEN store[outs[k]] ELSE Num(0)]

\* Line 198: vars[lhs] = <value x of the expression>, then the next line.
Assigned(body, k, lhs, x, fns, d, ran) ==
    IF x.st = "err" THEN [x EXCEPT !.vals = ran]
    ELSE RunBody(body, k + 1, Global(Put(x.g.vars, lhs, x.v), x.g.log),
                 fns, d, ran)

\* Lines 195-198: one assignment line; tk is the tokenizer's outcome on its
\* right-hand side (a tokenizer that never returns ends in MemoryError).
Statement(body, k, lhs, tk, g, fns, d, ran) ==
    IF ~tk.ok THEN [Raise("MemoryError", <<>>, g) EXCEPT !.vals = ran]
    ELSE Assigned(body, k, lhs, eval_expr(tk.tokens, g, fns, d), fns, d, ran)

\* Lines 193-198: the body lines from the k-th on.  ran collects the lines
\* that were executed; the outcome carries it in vals.
RunBody(body, k, g, fns, d, ran) ==
    IF k > Len(body) THEN Ok(Num(0), ran, <<>>, g)
    ELSE IF ~HasChar(body[k], "=") THEN RunBody(body, k + 1, g, fns, d, ran)
    ELSE Statement(body, k,
                   Strip(Before(body[k], FirstIndex(body[k], "="))),
                   tokenize(Strip(After(body[k], FirstIndex(body[k], "="), 1))),
                   g, fns, d, Append(ran, body[k]))

\* A call of a registered function left by an exception: g is the global
\* state as the exception leaves it, pre the store when the call was entered.
Failed(name, nargs, pre, g, err, ran) ==
    Raise(err, <<>>,
          Logged(g, Event("call", name, nargs, pre, g.vars, "err", err, ran)))

\* Lines 200-205 after the body ended as b (or its failure left as it is);
\* pre is the store when the call was entered.
Returned(name, nargs, pre, saved, outs, b) ==
    IF b.st = "err" THEN Failed(name, nargs, pre, b.g, b.err, b.vals)
    ELSE Ok(Num(0), Outputs(b.g.vars, outs), <<>>,
            Logged(Global(Restore(b.g.vars, saved), b.g.log),
                   Event("call", name, nargs, pre, Restore(b.g.vars, saved),
                         "ok", "", b.vals)))

\* CallUser with the store cleared and the parameters bound before the
\* argument count is compared.
CallUserBindFirst(name, f, args, g, fns, d) ==
    IF Len(args) # Len(f.args)
    THEN Failed(name, Len(args), g.vars,
                Global(Bind(f.args, args, EmptyEnv), g.log),
                "Arg count mismatch", <<>>)
    ELSE IF d >= MaxDepth
    THEN Failed(name, Len(args), g.vars, g, "RecursionError", <<>>)
    ELSE Returned(name, Len(args), g.vars, Snapshot(g.vars), f.outputs,
                  RunBody(f.body, 1,
                          Global(Bind(f.args, args, EmptyEnv), g.log),
                          fns, d + 1, <<>>))

\* Lines 183-205: the call of the registered function f.  The interpreter's
\* recursion limit is reached at MaxDepth active invocations.
CallUser(name, f, args, g, fns, d) ==
    IF Len(args) # Len(f.args)
    THEN Failed(name, Len(args), g.vars, g, "Arg count mismatch", <<>>)
    ELSE IF d >= MaxDepth
    THEN Failed(name, Len(args), g.vars, g, "RecursionError", <<>>)
    ELSE Returned(name, Len(args), g.vars, Snapshot(g.vars), f.outputs,
                  RunBody(f.body, 1,
                          Global(Bind(f.args, args, EmptyEnv), g.log),
                          fns, d + 1, <<>>))

\* Lines 171-205.
run_function_call(name, args, g, fns, d) ==
    IF name \in BuiltinNames
    THEN IF CallBuiltin(name, args).ok
         THEN Ok(Num(0), <<CallBuiltin(name, args).v>>, <<>>, g)
         ELSE Raise("Error in builtin function", <<>>, g)
    ELSE IF name \notin DOMAIN fns THEN Raise("Function not defined", <<>>, g)
    ELSE CallUser(name, fns[name], args, g, fns, d)

(***************************************************************************)
(* parse_function_definition (src/main.py 127-147): the registry after the  *)
(* block was parsed, or ok = FALSE when the header makes it raise.          *)
(***************************************************************************)
DefMarker == <<"=", " ", "d", "e", "f">>
DefWord == <<"d", "e", "f">>
EndWord == <<"e", "n", "d">>

\* Register keeping a definition that is already there (setdefault).
RegisterKeepFirst(fns, name, def) ==
    [x \in DOMAIN fns \cup {name} |-> IF x \in DOMAIN fns THEN fns[x] ELSE def]

\* Line 147: functions[name] = definition
Register(fns, name, def) ==
    [x \in DOMAIN fns \cup {name} |-> IF x = name THEN def ELSE fns[x]]

\* Lines 141-147: the part of the header after "def", the part before the
\* first "=", and the lines of the block.
DefineFrom(func_part, out_part, lines, fns) ==
    IF ~HasChar(func_part, "(") THEN [ok |-> FALSE, fns |-> fns]
    ELSE [ok |-> TRUE,
          fns |-> Register(fns,
                    Strip(Before(func_part, FirstIndex(func_part, "("))),
                    [args |-> StripNonEmpty(Split(RStripChar(
                                 After(func_part, FirstIndex(func_part, "("), 1),
                                 ")"), ",")),
                     outputs |-> StripNonEmpty(Split(Inner(Strip(out_part)), ",")),
                     body |-> SubSeq(lines, 2, Len(lines) - 1)])]

\* Lines 131-139: the header split at its first "=" into out_part and rest.
HeaderSplit(out_part, rest, lines, fns) ==
    IF ~HasSub(rest, DefWord) THEN [ok |-> FALSE, fns |-> fns]
    ELSE DefineFrom(Strip(After(rest, FindSub(rest, DefWord), 3)), out_part,
                    lines, fns)

\* Lines 128-131.
ParseHeader(header, lines, fns) ==
    IF ~HasSub(header, DefMarker) THEN [ok |-> FALSE, fns |-> fns]
    ELSE HeaderSplit(Before(header, FirstIndex(header, "=")),
                     Strip(After(header, FirstIndex(header, "="), 1)),
                     lines, fns)

parse_function_definition(lines, fns) == ParseHeader(Strip(lines[1]), lines, fns)

(***************************************************************************)
(* Values the variable groups hold while another part of the program runs.  *)
(***************************************************************************)
EmptyFns == [x \in {} |-> [args |-> <<>>, outputs |-> <<>>, body |-> <<>>]]

NoRequest ==
    [op |-> "none", inp |-> <<>>, st |-> "ok", err |-> "", pre |-> InitialEnv,
     preFns |-> EmptyFns, log |-> <<>>]

ReplStart ==
    /\ env = InitialEnv
    /\ functions = EmptyFns
    /\ running = TRUE
    /\ last = NoRequest
    /\ lastDef = [x \in {} |-> [cur |-> 0, old |-> 0]]

TokIdle == ts = <<>> /\ ti = 0 /\ ttoks = <<>> /\ tpc = "done"

NoTree == [t |-> "lit", n |-> 0]

NoOutcome == [st |-> "ok", err |-> "", v |-> Num(0), toks |-> <<>>]

ExprIdle ==
    etree = NoTree /\ etext = <<>> /\ ebroken = FALSE /\ eres = NoOutcome

LoadIdle ==
    /\ lfile = <<>>
    /\ lpos = 1
    /\ lbuf = <<>>
    /\ lst = "eof"
    /\ lreg = 0
    /\ lend = 0

\* All sequences over A of length at most n.
SeqsUpTo(A, n) == UNION {[1..k -> A] : k \in 0..n}

(***************************************************************************)
(* The tokenizer, one loop iteration at a time (src/main.py 107-123).       *)
(***************************************************************************)
TokAlphabet == {"(", "+", " ", "a", "1", ".", "_", "="}

TokInit ==
    /\ ts \in SeqsUpTo(TokAlphabet, MaxLineLen)
    /\ ti = 0
    /\ ttoks = <<>>
    /\ tpc = "loop"
    /\ ReplStart /\ ExprIdle /\ LoadIdle

\* Lines 112-114: a punctuation character becomes a token.
TokPunct ==
    /\ tpc = "loop" /\ ti < Len(ts) /\ ts[ti + 1] \in Punct
    /\ Len(ttoks) < MaxToks
    /\ ti' = TokIter(ts, ti, ttoks).i
    /\ ttoks' = TokIter(ts, ti, ttoks).tokens
    /\ UNCHANGED <<ts, tpc>>

\* Lines 115-116: whitespace is skipped.
TokSpace ==
    /\ tpc = "loop" /\ ti < Len(ts) /\ IsSpace(ts[ti + 1])
    /\ ti' = TokIter(ts, ti, ttoks).i
    /\ ttoks' = TokIter(ts, ti, ttoks).tokens
    /\ UNCHANGED <<ts, tpc>>

\* Lines 117-122: a run of alphanumerics and "." becomes a token.
TokWord ==
    /\ tpc = "loop" /\ ti < Len(ts)
    /\ ts[ti + 1] \notin Punct /\ ~IsSpace(ts[ti + 1])
    /\ Len(ttoks) < MaxToks
    /\ ti' = TokIter(ts, ti, ttoks).i
    /\ ttoks' = TokIter(ts, ti, ttoks).tokens
    /\ UNCHANGED <<ts, tpc>>

\* Lines 110, 123: the loop condition fails and tokens is returned.
TokReturn ==
    /\ tpc = "loop" /\ ti >= Len(ts)
    /\ tpc' = "done"
    /\ UNCHANGED <<ts, ti, ttoks>>

TokNext ==
    \/ TokPunct /\ UNCHANGED <<replVars, exprVars, loadVars>>
    \/ TokSpace /\ UNCHANGED <<replVars, exprVars, loadVars>>
    \/ TokWord /\ UNCHANGED <<replVars, exprVars, loadVars>>
    \/ TokReturn /\ UNCHANGED <<replVars, exprVars, loadVars>>

SpecTok == TokInit /\ [][TokNext]_vars

\* C3: the tokenizer terminates on every finite line: on every iteration of
\* its loop the scan position strictly advances (so at most len(s)
\* iterations run before the token sequence is returned).
TokenizerAdvances == [][tpc' = "loop" => ti' > ti]_tokVars

(***************************************************************************)
(* Evaluator runs: eval_expr(tokenize(text)) applied to generated texts.    *)
(* An expression is kept as its reference reading, a tree                   *)
(*   [t |-> "lit", n]        a number literal                               *)
(*   [t |-> "bin", op, l, r] a binary operator applied to two expressions   *)
(*   [t |-> "par", x]        an explicitly parenthesized expression         *)
(*   [t |-> "call", x]       the call abs(x)                                *)
(* and its text is written from the tree with parentheses exactly where the *)
(* grammar of precedence and left associativity needs them.                 *)
(***************************************************************************)
Operands == {2, 3}

Operators == {"+", "-", "*", "/", "^"}

Lit(n) == [t |-> "lit", n |-> n]

Bin(op, l, r) == [t |-> "bin", op |-> op, l |-> l, r |-> r]

Par(x) == [t |-> "par", x |-> x]

CallAbs(x) == [t |-> "call", x |-> x]

\* Binding strength of the root: 1 additive, 2 multiplicative, 3 exponent,
\* 4 a factor.
Level(tree) ==
    IF tree.t # "bin" THEN 4
    ELSE IF tree.op = "^" THEN 3
    ELSE IF tree.op \in {"*", "/"} THEN 2
    ELSE 1

RECURSIVE Nodes(_)
Nodes(tree) ==
    IF tree.t = "lit" THEN 0
    ELSE IF tree.t = "bin" THEN 1 + Nodes(tree.l) + Nodes(tree.r)
    ELSE 1 + Nodes(tree.x)

RECURSIVE OnlyOperators(_)
\* Built from number literals and binary operators alone.
OnlyOperators(tree) ==
    IF tree.t = "lit" THEN TRUE
    ELSE IF tree.t = "bin" THEN OnlyOperators(tree.l) /\ OnlyOperators(tree.r)
    ELSE FALSE

RECURSIVE CallFree(_)
CallFree(tree) ==
    IF tree.t = "lit" THEN TRUE
    ELSE IF tree.t = "bin" THEN CallFree(tree.l) /\ CallFree(tree.r)
    ELSE IF tree.t = "par" THEN CallFree(tree.x)
    ELSE FALSE

RECURSIVE HasPar(_)
HasPar(tree) ==
    IF tree.t = "lit" THEN FALSE
    ELSE IF tree.t = "bin" THEN HasPar(tree.l) \/ HasPar(tree.r)
    ELSE IF tree.t = "par" THEN TRUE
    ELSE HasPar(tree.x)

RECURSIVE Unparse(_)
\* The text of a tree.
Unparse(tree) ==
    IF tree.t = "lit" THEN <<DigitSeq[tree.n + 1]>>
    ELSE IF tree.t = "par" THEN <<"(">> \o Unparse(tree.x) \o <<")">>
    ELSE IF tree.t = "call"
    THEN <<"a", "b", "s", "(">> \o Unparse(tree.x) \o <<")">>
    ELSE LET lt == Unparse(tree.l)
             rt == Unparse(tree.r)
         IN (IF Level(tree.l) < Level(tree) THEN <<"(">> \o lt \o <<")">> ELSE lt)
            \o <<tree.op>> \o
            (IF Level(tree.r) <= Level(tree) THEN <<"(">> \o rt \o <<")">> ELSE rt)

RECURSIVE RefPower(_, _, _)
\* acc * b^k for |b| >= 2, stopping once outside the exact window.
RefPower(b, k, acc) ==
    IF k = 0 \/ Abs(acc) > ExactLimit THEN acc ELSE RefPower(b, k - 1, acc * b)

RECURSIVE RefVal(_)
\* The value of the reference reading; def = FALSE when it has no exact
\* integer value inside the exact window (or none at all).
RefVal(tree) ==
    IF tree.t = "lit" THEN [def |-> TRUE, n |-> tree.n]
    ELSE IF tree.t = "par" THEN RefVal(tree.x)
    ELSE IF tree.t = "call"
    THEN [def |-> RefVal(tree.x).def, n |-> Abs(RefVal(tree.x).n)]
    ELSE LET a == RefVal(tree.l)
             b == RefVal(tree.r)
             n == CASE tree.op = "+" -> a.n + b.n
                    [] tree.op = "-" -> a.n - b.n
                    [] tree.op = "*" -> a.n * b.n
                    [] tree.op = "/" -> IF b.n # 0 /\ Abs(a.n) % Abs(b.n) = 0
                                        THEN (IF (a.n < 0) = (b.n < 0) THEN 1 ELSE -1)
                                             * (Abs(a.n) \div Abs(b.n))
                                        ELSE 0
                    [] tree.op = "^" -> IF b.n < 0 THEN 0
                                        ELSE IF Abs(a.n) <= 1 THEN (IF b.n = 0 THEN 1
                                             ELSE IF a.n = -1 /\ b.n % 2 = 1 THEN -1
                                             ELSE Abs(a.n))
                                        ELSE RefPower(a.n, b.n, 1)
             exact == CASE tree.op = "/" -> b.n # 0 /\ Abs(a.n) % Abs(b.n) = 0
                        [] tree.op = "^" -> b.n >= 0
                        [] OTHER -> TRUE
         IN IF a.def /\ b.def /\ exact /\ Abs(n) <= ExactLimit
            THEN [def |-> TRUE, n |-> n]
            ELSE [def |-> FALSE, n |-> 0]

Outcome(r) == [st |-> r.st, err |-> r.err, v |-> r.v, toks |-> r.toks]

\* evaluate(text): eval_expr(tokenize(text)) in the store of a fresh process
\* with no user function registered (src/main.py 300).
EvalText(text) ==
    IF ~tokenize(text).ok
    THEN [st |-> "err", err |-> "MemoryError", v |-> Num(0), toks |-> <<>>]
    ELSE Outcome(eval_expr(tokenize(text).tokens, Global(InitialEnv, <<>>),
                           EmptyFns, 0))

\* The positions of the ")" characters of a text.
Closers(text) == {k \in 1..Len(text) : text[k] = ")"}

ExprInit ==
    /\ etree \in {Lit(n) : n \in Operands}
    /\ etext = Unparse(etree)
    /\ ebroken = FALSE
    /\ eres = EvalText(etext)
    /\ ReplStart /\ TokIdle /\ LoadIdle

Evaluated(tree) ==
    /\ etree' = tree
    /\ etext' = Unparse(tree)
    /\ eres' = EvalText(Unparse(tree))
    /\ UNCHANGED ebroken

\* The expression becomes the left operand of a new operator.
GrowLeft(op, n) ==
    /\ ~ebroken /\ Nodes(etree) < MaxOps
    /\ Evaluated(Bin(op, etree, Lit(n)))

\* The expression becomes the right operand of a new operator.
GrowRight(op, n) ==
    /\ ~ebroken /\ Nodes(etree) < MaxOps
    /\ Evaluated(Bin(op, Lit(n), etree))

\* The expression is put in parentheses.
Wrap ==
    /\ ~ebroken /\ Nodes(etree) < MaxOps
    /\ Evaluated(Par(etree))

\* The expression becomes the argument of a call of the built-in abs.
WrapCall ==
    /\ ~ebroken /\ Nodes(etree) < MaxOps
    /\ Evaluated(CallAbs(etree))

\* A ")" of the text is replaced by the token c, and the text evaluated.
Replace(k, c) ==
    /\ ~ebroken /\ k \in Closers(etext)
    /\ etext' = [etext EXCEPT ![k] = c]
    /\ eres' = EvalText(etext')
    /\ ebroken' = TRUE
    /\ UNCHANGED etree

\* A ")" of the text is removed, and the text evaluated.
Remove(k) ==
    /\ ~ebroken /\ k \in Closers(etext)
    /\ etext' = Before(etext, k) \o After(etext, k, 1)
    /\ eres' = EvalText(etext')
    /\ ebroken' = TRUE
    /\ UNCHANGED etree

ExprNext ==
    \/ \E op \in Operators, n \in Operands :
          GrowLeft(op, n) /\ UNCHANGED <<replVars, tokVars, loadVars>>
    \/ \E op \in Operators, n \in Operands :
          GrowRight(op, n) /\ UNCHANGED <<replVars, tokVars, loadVars>>
    \/ Wrap /\ UNCHANGED <<replVars, tokVars, loadVars>>
    \/ WrapCall /\ UNCHANGED <<replVars, tokVars, loadVars>>
    \/ \E k \in 1..Len(etext), c \in {"]", "["} :
          Replace(k, c) /\ UNCHANGED <<replVars, tokVars, loadVars>>
    \/ \E k \in 1..Len(etext) :
          Remove(k) /\ UNCHANGED <<replVars, tokVars, loadVars>>

SpecExpr == ExprInit /\ [][ExprNext]_vars

\* C4: a well-formed expression built from number literals and the binary
\* operators + - * / ^ (parenthesized only where the grouping needs it)
\* evaluates to the value of its reference reading, in which ^ binds tighter
\* than * and /, these bind tighter than + and -, and every level is
\* left-associative.
PrecedenceRespected ==
    (~ebroken /\ OnlyOperators(etree) /\ RefVal(etree).def)
        => (eres.st = "ok" /\ eres.v = Num(RefVal(etree).n))

\* C5: a parenthesized sub-expression is accepted wherever a factor may
\* appear and has the value of the expression inside it, also when that
\* expression itself begins with "(".
ParenthesesGroup ==
    (~ebroken /\ HasPar(etree) /\ CallFree(etree) /\ RefVal(etree).def)
        => (eres.st = "ok" /\ eres.v = Num(RefVal(etree).n))

\* C6: every "(" the evaluator consumes needs its ")": a text in which the
\* token found where a ")" is due is another token, or is missing, fails to
\* evaluate.
CloseRequired == ebroken => eres.st = "err"

(***************************************************************************)
(* load_functions_from_file (src/main.py 151-161), one line of the for loop *)
(* at a time.  The registry is empty when the files are loaded (line 304).  *)
(***************************************************************************)
HeaderF == <<"[", "y", "]", " ", "=", " ", "d", "e", "f", " ", "f", "(", "x", ")">>
HeaderBad == <<"k", " ", "=", " ", "d", "e", "f">>
BodyLine == <<"y", " ", "=", " ", "x">>
EndLine == <<"e", "n", "d">>
EndPadded == <<" ", "e", "n", "d", " ">>

FileLines == {HeaderF, HeaderBad, BodyLine, EndLine, EndPadded}

\* LoadStep with a header line appended to an open block instead of starting
\* a new one.
LoadStepNoReset(line, buf, fns) ==
    IF HasSub(line, DefMarker) /\ buf = <<>>
    THEN [buf |-> <<line>>, fns |-> fns, registered |-> FALSE, raised |-> FALSE]
    ELSE IF buf = <<>>
    THEN [buf |-> buf, fns |-> fns, registered |-> FALSE, raised |-> FALSE]
    ELSE IF Strip(line) # EndWord
    THEN [buf |-> Append(buf, line), fns |-> fns, registered |-> FALSE,
          raised |-> FALSE]
    ELSE IF parse_function_definition(Append(buf, line), fns).ok
    THEN [buf |-> <<>>,
          fns |-> parse_function_definition(Append(buf, line), fns).fns,
          registered |-> TRUE, raised |-> FALSE]
    ELSE [buf |-> Append(buf, line), fns |-> fns, registered |-> FALSE,
          raised |-> TRUE]

\* Lines 155-161: one iteration of the for loop on the line, with buf and the
\* registry as they are; raised = TRUE when parse_function_definition raises
\* (buf is then left as it was appended to, and the load is abandoned).
LoadStep(line, buf, fns) ==
    IF HasSub(line, DefMarker)
    THEN [buf |-> <<line>>, fns |-> fns, registered |-> FALSE, raised |-> FALSE]
    ELSE IF buf = <<>>
    THEN [buf |-> buf, fns |-> fns, registered |-> FALSE, raised |-> FALSE]
    ELSE IF Strip(line) # EndWord
    THEN [buf |-> Append(buf, line), fns |-> fns, registered |-> FALSE,
          raised |-> FALSE]
    ELSE IF parse_function_definition(Append(buf, line), fns).ok
    THEN [buf |-> <<>>,
          fns |-> parse_function_definition(Append(buf, line), fns).fns,
          registered |-> TRUE, raised |-> FALSE]
    ELSE [buf |-> Append(buf, line), fns |-> fns, registered |-> FALSE,
          raised |-> TRUE]

LoadInit ==
    /\ lfile \in SeqsUpTo(FileLines, MaxFileLen)
    /\ lpos = 1
    /\ lbuf = <<>>
    /\ lst = "reading"
    /\ lreg = 0
    /\ lend = 0
    /\ ReplStart /\ TokIdle /\ ExprIdle

\* The next line of the file is read and handled.
LoadLine ==
    /\ lst = "reading" /\ lpos <= Len(lfile)
    /\ lbuf' = LoadStep(lfile[lpos], lbuf, functions).buf
    /\ functions' = LoadStep(lfile[lpos], lbuf, functions).fns
    /\ lreg' = lreg + (IF LoadStep(lfile[lpos], lbuf, functions).registered
                       THEN 1 ELSE 0)
    /\ lend' = lend + (IF Strip(lfile[lpos]) = EndWord THEN 1 ELSE 0)
    /\ lst' = IF LoadStep(lfile[lpos], lbuf, functions).raised
              THEN "raised" ELSE "reading"
    /\ lpos' = lpos + 1
    /\ UNCHANGED <<lfile, env, running, last, lastDef>>

\* The for loop ends: the function returns, whatever buf holds.
LoadEof ==
    /\ lst = "reading" /\ lpos > Len(lfile)
    /\ lst' = "eof"
    /\ UNCHANGED <<lfile, lpos, lbuf, lreg, lend, replVars>>

LoadNext ==
    \/ LoadLine /\ UNCHANGED <<tokVars, exprVars>>
    \/ LoadEof /\ UNCHANGED <<tokVars, exprVars>>

SpecLoad == LoadInit /\ [][LoadNext]_vars

\* What reading one line may do, by the kind of the line.
LineRule(line) ==
    /\ HasSub(line, DefMarker)
          => /\ lbuf' = <<line>>
             /\ lreg' = lreg /\ functions' = functions /\ lst' = "reading"
    /\ (~HasSub(line, DefMarker) /\ lbuf = <<>>)
          => /\ lbuf' = <<>>
             /\ lreg' = lreg /\ functions' = functions /\ lst' = "reading"
    /\ (~HasSub(line, DefMarker) /\ lbuf # <<>> /\ Strip(line) # EndWord)
          => /\ lbuf' = Append(lbuf, line)
             /\ lreg' = lreg /\ functions' = functions /\ lst' = "reading"
    /\ (lreg' # lreg \/ functions' # functions)
          => /\ Strip(line) = EndWord /\ lbuf # <<>>
             /\ lbuf' = <<>> /\ lreg' = lreg + 1

\* C10: a line with the header marker starts a new buffer holding only that
\* line; any other line is appended only while a buffer is open and ignored
\* otherwise; a definition is registered only when an 'end' line is read
\* with a buffer open, which leaves the buffer empty; a block that reaches
\* no 'end' line registers nothing and raises nothing; no more definitions
\* are registered than 'end' lines were read.
LoaderBuffers ==
    /\ [](lreg <= lend)
    /\ []((lend = 0) => (lreg = 0 /\ functions = EmptyFns /\ lst # "raised"))
    /\ [][lpos' = lpos + 1 => LineRule(lfile[lpos])]_loadVars

\* C10's case: one block was registered at its 'end' line, a second block
\* was opened by a header, and the file ended before its 'end'.
LoaderWitness ==
    /\ lst = "eof" /\ lreg = 1 /\ lend = 1
    /\ Len(lbuf) = 2 /\ lbuf[1] = HeaderF
    /\ functions # EmptyFns

(***************************************************************************)
(* The interactive loop (src/main.py 209-300): one request per action.      *)
(* main_loop catches nothing, so a request that raises ends the loop; the   *)
(* state it leaves behind is the state of the failure.                      *)
(***************************************************************************)
\* The definition blocks typed in: the header line and the lines read up to
\* and including the first 'end'.
DefBlocks ==
  <<<<<<"[", "y", "]", " ", "=", " ", "d", "e", "f", " ", "s", "q", "(", "x", ")">>,
      <<"y", " ", "=", " ", "x", "^", "2">>,
      <<"e", "n", "d">>>>,
    <<<<"[", "y", "]", " ", "=", " ", "d", "e", "f", " ", "s", "q", "(", "x", ")">>,
      <<"t", " ", "=", " ", "x", "*", "x">>,
      <<"y", " ", "=", " ", "t", "+", "1">>,
      <<"e", "n", "d">>>>,
    <<<<"[", "z", "]", " ", "=", " ", "d", "e", "f", " ", "g", "(", "a", ",", " ", "x", ")">>,
      <<"x", " ", "=", " ", "s", "q", "(", "a", ")">>,
      <<"z", " ", "=", " ", "x", "+", "a">>,
      <<"e", "n", "d">>>>,
    <<<<"[", "y", "]", " ", "=", " ", "d", "e", "f", " ", "b", "a", "d", "(", "x", ")">>,
      <<"y", " ", "=", " ", "7">>,
      <<"x", " ", "=", " ", "y", "/", "0">>,
      <<"e", "n", "d">>>>,
    <<<<"[", "y", "]", " ", "=", " ", "d", "e", "f", " ", "r", "(", "x", ")">>,
      <<"y", " ", "=", " ", "r", "(", "x", ")">>,
      <<"e", "n", "d">>>>,
    <<<<"[", "q", "]", " ", "=", " ", "d", "e", "f", " ", "h", "(", "a", ")">>,
      <<"q", " ", "=", " ", "f", "o", "o", "(", "s", "q", "(", "a", ")", ",", " ", "1", ")">>,
      <<"e", "n", "d">>>>,
    <<<<"[", "z", "]", " ", "=", " ", "d", "e", "f", " ", "k", "(", "a", ")">>,
      <<"z", " ", "=", " ", "s", "q", "(", "a", ",", " ", "1", ")">>,
      <<"e", "n", "d">>>>>>

\* A block whose header has the marker but no parameter list.
BadBlock == <<HeaderBad, EndLine>>

\* What each block of DefBlocks declares, written down independently of the
\* header parser: the name, the parameters, the outputs and the body lines.
Declared ==
  <<[name |-> <<"s", "q">>,
      args |-> <<<<"x">>>>,
      outputs |-> <<<<"y">>>>,
      body |-> <<<<"y", " ", "=", " ", "x", "^", "2">>>>],
    [name |-> <<"s", "q">>,
      args |-> <<<<"x">>>>,
      outputs |-> <<<<"y">>>>,
      body |-> <<<<"t", " ", "=", " ", "x", "*", "x">>,
               <<"y", " ", "=", " ", "t", "+", "1">>>>],
    [name |-> <<"g">>,
      args |-> <<<<"a">>, <<"x">>>>,
      outputs |-> <<<<"z">>>>,
      body |-> <<<<"x", " ", "=", " ", "s", "q", "(", "a", ")">>,
               <<"z", " ", "=", " ", "x", "+", "a">>>>],
    [name |-> <<"b", "a", "d">>,
      args |-> <<<<"x">>>>,
      outputs |-> <<<<"y">>>>,
      body |-> <<<<"y", " ", "=", " ", "7">>,
               <<"x", " ", "=", " ", "y", "/", "0">>>>],
    [name |-> <<"r">>,
      args |-> <<<<"x">>>>,
      outputs |-> <<<<"y">>>>,
      body |-> <<<<"y", " ", "=", " ", "r", "(", "x", ")">>>>],
    [name |-> <<"h">>,
      args |-> <<<<"a">>>>,
      outputs |-> <<<<"q">>>>,
      body |-> <<<<"q", " ", "=", " ", "f", "o", "o", "(", "s", "q", "(", "a", ")", ",", " ", "1", ")">>>>],
    [name |-> <<"k">>,
      args |-> <<<<"a">>>>,
      outputs |-> <<<<"z">>>>,
      body |-> <<<<"z", " ", "=", " ", "s", "q", "(", "a", ",", " ", "1", ")">>>>]>>

\* The other lines typed in (already stripped, as line 211 leaves them).
ReplInputs ==
    {<<"x", " ", "=", " ", "5">>,
     <<"s", "q", "(", "3", ")">>,
     <<"[", "x", "]", " ", "=", " ", "s", "q", "(", "3", ")">>,
     <<"g", "(", "2", ",", " ", "x", ")">>,
     <<"g", "(", "1", ")">>,
     <<"b", "a", "d", "(", "1", ")">>,
     <<"r", "(", "1", ")">>,
     <<"h", "(", "2", ")">>,
     <<"k", "(", "2", ")">>,
     <<"x">>,
     <<"x", "*", "2">>,
     <<"f", "o", "o", "(", "1", ",", " ", "x", ")">>}

\* Lines 246-257 (and 270-281): the arguments of a call typed at the prompt.
RECURSIVE ReplArgs(_, _, _)
ReplArgs(parts, store, acc) ==
    IF parts = <<>> THEN [ok |-> TRUE, vals |-> acc]
    ELSE IF Strip(Head(parts)) \in DOMAIN store
    THEN ReplArgs(Tail(parts), store, Append(acc, store[Strip(Head(parts))]))
    ELSE IF ParseFloat(Strip(Head(parts))).ok
    THEN ReplArgs(Tail(parts), store, Append(acc, ParseFloat(Strip(Head(parts))).v))
    ELSE [ok |-> FALSE, vals |-> acc]

\* What a request leaves in last.
Request(op, inp, r) ==
    [op |-> op, inp |-> inp, st |-> r.st, err |-> r.err, pre |-> env,
     preFns |-> functions, log |-> r.g.log]

Fresh == Global(env, <<>>)

\* name(args) typed at the prompt: lines 243-259 and 267-283, with call the
\* text from the name on.
PromptCall(call) ==
    IF ~HasChar(call, "(") THEN Raise("ValueError", <<>>, Fresh)
    ELSE IF ~ReplArgs(Split(RStripChar(After(call, FirstIndex(call, "("), 1), ")"),
                            ","), env, <<>>).ok
    THEN Raise("Invalid argument", <<>>, Fresh)
    ELSE run_function_call(
             Strip(Before(call, FirstIndex(call, "("))),
             ReplArgs(Split(RStripChar(After(call, FirstIndex(call, "("), 1), ")"),
                            ","), env, <<>>).vals,
             Fresh, functions, 0)

\* [o.strip() for o in parts]
RECURSIVE StripAll(_)
StripAll(parts) ==
    IF parts = <<>> THEN <<>> ELSE <<Strip(Head(parts))>> \o StripAll(Tail(parts))

\* eval_expr(tokenize(text)) at the prompt (lines 291 and 300).
PromptEval(text) ==
    IF ~tokenize(text).ok THEN Raise("MemoryError", <<>>, Fresh)
    ELSE eval_expr(tokenize(text).tokens, Fresh, functions, 0)

\* A request ended as r: the loop goes on or is left by the exception.
Ended(op, inp, r, store) ==
    /\ env' = IF r.st = "ok" THEN store ELSE r.g.vars
    /\ running' = (r.st = "ok")
    /\ last' = Request(op, inp, r)

\* History: block b was registered under the name; old keeps the block it
\* replaced, when that was another one.
Noted(hist, name, b) ==
    [x \in DOMAIN hist \cup {name} |->
        IF x # name THEN hist[x]
        ELSE IF name \notin DOMAIN hist THEN [cur |-> b, old |-> 0]
        ELSE IF hist[name].cur = b THEN hist[name]
        ELSE [cur |-> b, old |-> hist[name].cur]]

\* Lines 218-219: clear
ReplClear ==
    /\ running
    /\ env' = EmptyEnv
    /\ last' = Request("clear", <<>>, Ok(Num(0), <<>>, <<>>, Fresh))
    /\ UNCHANGED <<functions, running, lastDef>>

\* Lines 230-237: a definition block is read and registered.
ReplDefine(b) ==
    /\ running
    /\ HasSub(Strip(DefBlocks[b][1]), DefMarker)
    /\ parse_function_definition(DefBlocks[b], functions).ok
    /\ functions' = parse_function_definition(DefBlocks[b], functions).fns
    /\ lastDef' = Noted(lastDef, Declared[b].name, b)
    /\ last' = Request("define", <<>>, Ok(Num(0), <<>>, <<>>, Fresh))
    /\ UNCHANGED <<env, running>>

\* Lines 230-237 when parse_function_definition raises.
ReplDefineBad ==
    /\ running
    /\ HasSub(Strip(BadBlock[1]), DefMarker)
    /\ ~parse_function_definition(BadBlock, functions).ok
    /\ running' = FALSE
    /\ last' = Request("define", BadBlock[1], Raise("ValueError", <<>>, Fresh))
    /\ UNCHANGED <<env, functions, lastDef>>

\* Lines 240-263: [outs] = name(args)
ReplAssignCall(inp) ==
    /\ running
    /\ ~HasSub(inp, DefMarker) /\ HasChar(inp, "=") /\ HasChar(inp, "(")
    /\ Ended("assigncall", inp,
             PromptCall(After(inp, FirstIndex(inp, "="), 1)),
             Bind(StripAll(Split(Inner(Strip(Before(inp, FirstIndex(inp, "=")))),
                                 ",")),
                  PromptCall(After(inp, FirstIndex(inp, "="), 1)).vals,
                  PromptCall(After(inp, FirstIndex(inp, "="), 1)).g.vars))
    /\ UNCHANGED <<functions, lastDef>>

\* Lines 266-286: name(args)
ReplBareCall(inp) ==
    /\ running
    /\ ~HasSub(inp, DefMarker) /\ ~HasChar(inp, "=") /\ HasChar(inp, "(")
    /\ Ended("barecall", inp, PromptCall(inp), PromptCall(inp).g.vars)
    /\ UNCHANGED <<functions, lastDef>>

\* Lines 289-294: name = expression
ReplAssign(inp) ==
    /\ running
    /\ ~HasSub(inp, DefMarker) /\ HasChar(inp, "=") /\ ~HasChar(inp, "(")
    /\ Ended("assign", inp,
             PromptEval(Strip(After(inp, FirstIndex(inp, "="), 1))),
             Put(PromptEval(Strip(After(inp, FirstIndex(inp, "="), 1))).g.vars,
                 Strip(Before(inp, FirstIndex(inp, "="))),
                 PromptEval(Strip(After(inp, FirstIndex(inp, "="), 1))).v))
    /\ UNCHANGED <<functions, lastDef>>

\* Lines 297-300: a variable is shown or an expression evaluated.
ReplExpr(inp) ==
    /\ running
    /\ ~HasChar(inp, "=") /\ ~HasChar(inp, "(")
    /\ IF inp \in DOMAIN env
       THEN Ended("show", inp, Ok(env[inp], <<>>, <<>>, Fresh), env)
       ELSE Ended("eval", inp, PromptEval(inp), PromptEval(inp).g.vars)
    /\ UNCHANGED <<functions, lastDef>>

Init == ReplStart /\ TokIdle /\ ExprIdle /\ LoadIdle

Next ==
    \/ ReplClear /\ UNCHANGED <<tokVars, exprVars, loadVars>>
    \/ \E b \in 1..Len(DefBlocks) :
          ReplDefine(b) /\ UNCHANGED <<tokVars, exprVars, loadVars>>
    \/ ReplDefineBad /\ UNCHANGED <<tokVars, exprVars, loadVars>>
    \/ \E inp \in ReplInputs :
          ReplAssignCall(inp) /\ UNCHANGED <<tokVars, exprVars, loadVars>>
    \/ \E inp \in ReplInputs :
          ReplBareCall(inp) /\ UNCHANGED <<tokVars, exprVars, loadVars>>
    \/ \E inp \in ReplInputs :
          ReplAssign(inp) /\ UNCHANGED <<tokVars, exprVars, loadVars>>
    \/ \E inp \in ReplInputs :
          ReplExpr(inp) /\ UNCHANGED <<tokVars, exprVars, loadVars>>

Spec == Init /\ [][Next]_vars

(***************************************************************************)
(* The claims about the function engine and the registry.                   *)
(***************************************************************************)
Events == {last.log[k] : k \in 1..Len(last.log)}

CallEvents == {ev \in Events : ev.ev = "call"}

\* The lines of a body that run_function_call executes.
RECURSIVE AssignLines(_)
AssignLines(body) ==
    IF body = <<>> THEN <<>>
    ELSE (IF HasChar(Head(body), "=") THEN <<Head(body)>> ELSE <<>>)
         \o AssignLines(Tail(body))

IsPrefix(s, w) == Len(s) <= Len(w) /\ SubSeq(w, 1, Len(s)) = s

\* The block now in force under a name.
Current(name) == Declared[lastDef[name].cur]

\* C1: when a user-function call fails while executing its body, the
\* variable store the failure leaves behind equals the store as it was
\* immediately before that call.
FailedCallRestores ==
    \A ev \in CallEvents :
        (ev.st = "err" /\ ev.ran # <<>>) => ev.post = ev.pre

\* C2: every user-function call that returns leaves the variable store as
\* it was immediately before that call, at every nesting depth; a call typed
\* at the prompt leaves the store of the session unchanged.
CallRestores ==
    /\ \A ev \in CallEvents : ev.st = "ok" => ev.post = ev.pre
    /\ (last.op = "barecall" /\ last.st = "ok") => env = last.pre

\* C2's case: g(2, x) returned with x a variable of the caller, g having a
\* parameter x, assigning x, and calling sq in a store of its own.
CallRestoresWitness ==
    /\ last.op = "barecall" /\ last.st = "ok"
    /\ <<"x">> \in DOMAIN env
    /\ \E i, j \in 1..Len(last.log) :
          /\ i < j
          /\ last.log[i].name = <<"s", "q">> /\ last.log[i].st = "ok"
          /\ last.log[j].name = <<"g">> /\ last.log[j].st = "ok"
          /\ last.log[i].pre # last.log[j].pre
          /\ <<"x">> \in DOMAIN last.log[i].pre

\* C7: a call of a registered user function with a number of arguments other
\* than its number of declared parameters fails with the argument-count
\* error before it touches any state: no body line runs, and the store and
\* the registry are those of before the call.
ArityChecked ==
    /\ \A ev \in CallEvents :
          ev.nargs # Len(Current(ev.name).args)
              => /\ ev.st = "err" /\ ev.err = "Arg count mismatch"
                 /\ ev.ran = <<>>
                 /\ ev.post = ev.pre
    /\ \A ev \in CallEvents :
          (ev.err = "Arg count mismatch" /\ ev.ran = <<>>)
              => ev.nargs # Len(Current(ev.name).args)
    /\ (last.err = "Arg count mismatch" /\ Len(last.log) = 1)
          => (env = last.pre /\ functions = last.preFns)

\* C7's case: g(1) typed at the prompt with g registered with two parameters
\* and a variable in the store.
ArityWitness ==
    /\ last.op = "barecall" /\ last.err = "Arg count mismatch"
    /\ Len(last.log) = 1 /\ last.log[1].name = <<"g">>
    /\ last.log[1].nargs = 1
    /\ <<"x">> \in DOMAIN env

CallOfFoo == <<"f", "o", "o", "(", "1", ",", " ", "x", ")">>

\* C8: a call expression whose name is neither a built-in nor a registered
\* user function fails with the unknown-function error, and the store is
\* then as it was when the evaluation of the call expression started,
\* whatever its arguments were (nested user-function calls included).
UnknownCallFails ==
    /\ \A ev \in Events :
          ev.ev = "factor"
              => /\ ev.name \notin BuiltinNames \cup DOMAIN functions
                 /\ ev.err = "Unknown function"
                 /\ ev.post = ev.pre
                 /\ last.st = "err" /\ last.err = "Unknown function"
    /\ \A ev \in CallEvents :
          (ev.name = <<"h">> /\ ev.ran # <<>>)
              => /\ ev.st = "err"
                 /\ (ev.err = "Unknown function" \/ ev.err = "Arg count mismatch")
    /\ (last.op = "barecall" /\ last.inp = CallOfFoo)
          => /\ last.st = "err"
             /\ last.err \in {"Function not defined", "Invalid argument"}
             /\ env = last.pre

\* C8's case: foo(sq(a), 1) evaluated in the body of h: the argument sq(a)
\* was a user-function call that returned, and foo is not defined.
UnknownCallWitness ==
    \E i, j \in 1..Len(last.log) :
        /\ i < j
        /\ last.log[i].ev = "call" /\ last.log[i].name = <<"s", "q">>
        /\ last.log[i].st = "ok"
        /\ last.log[j].ev = "factor" /\ last.log[j].name = <<"f", "o", "o">>
        /\ last.log[j].nargs = 2
        /\ last.log[j].pre # last.pre

\* C9: the registry holds, for each name, exactly the parameters, outputs
\* and body of the definition registered last under that name, and a call
\* of the name executes lines of that body only.
RegistryLatest ==
    /\ DOMAIN functions = DOMAIN lastDef
    /\ \A name \in DOMAIN functions :
          /\ functions[name].args = Current(name).args
          /\ functions[name].outputs = Current(name).outputs
          /\ functions[name].body = Current(name).body
    /\ \A ev \in CallEvents :
          IsPrefix(ev.ran, AssignLines(Current(ev.name).body))

\* C9's case: sq was defined, defined again with another body, and called.
RegistryWitness ==
    /\ <<"s", "q">> \in DOMAIN lastDef
    /\ lastDef[<<"s", "q">>].old # 0
    /\ <<"g">> \in DOMAIN functions
    /\ \E ev \in CallEvents :
          /\ ev.name = <<"s", "q">> /\ ev.st = "ok"
          /\ ev.ran = Current(<<"s", "q">>).body

=============================================================================
